---- MODULE Spec2Model ----
(***************************************************************************)
(* Model of resin-docker-build's Builder (build-stream orchestrator).      *)
(*                                                                         *)
(* One Builder instance drives several createBuildStream invocations.      *)
(* Each invocation owns a duplex channel (duplexify), a decoded output     *)
(* stream (res -> JSONStream.parse() -> es.through) and the closure        *)
(* variables hooks, handler and errored. The layer list is the instance    *)
(* field Builder.layers, re-assigned to a fresh array by every             *)
(* createBuildStream call.                                                 *)
(*                                                                         *)
(* Text is a sequence of one-character strings; a digest is such a         *)
(* sequence; undefined is the empty sequence.                              *)
(*                                                                         *)
(* Specifications: Spec (two builds on one Builder), HookSpec (one build,  *)
(* any hook set), PairSpec (two runs on the same events), DecodeSpec (one  *)
(* build, its decoded output and the reader of its channel), DirSpec (one  *)
(* buildDir call and the build it starts), LayerSpec (extractLayer alone). *)
(***************************************************************************)
EXTENDS Integers, Sequences, FiniteSets, TLC

(***************************************************************************)
(* Bounds of the model.                                                    *)
(***************************************************************************)
\* Progress records processed, over all builds.
MaxRecords == 2
\* Faults injected from outside the orchestrator, over all builds: an error
\* the channel emits on its own, a destroy of the channel by its holder, an
\* error of the output stream.
MaxFaults == 1
\* Files of the directory tree handed to buildDir.
MaxFiles == 2
\* Calls of extractLayer a caller of utils.ts makes in a row.
MaxCalls == 2

\* The createBuildStream invocations on the one Builder instance.
Builds == {"A", "B"}

(***************************************************************************)
(* utils.ts : extractLayer / extractArrowMessage                           *)
(***************************************************************************)
Undefined == << >>

\* [a-f0-9]
HexChars == {"a", "b", "c", "d", "e", "f",
             "0", "1", "2", "3", "4", "5", "6", "7", "8", "9"}

\* \s (the whitespace the lines of the model use)
WsChars == {" ", "\t", "\n"}

\* {12} in /^([a-f0-9]{12}[a-f0-9]*)/g
MinShaLen == 12

\* First index j >= i of s with s[j] \notin S, or Len(s) + 1: the end of the
\* greedy run S* that starts at i.
RECURSIVE RunEnd(_, _, _)
RunEnd(s, i, S) ==
    IF i > Len(s) \/ s[i] \notin S THEN i ELSE RunEnd(s, i + 1, S)

\* End (exclusive) of the run of '.' (anything but a newline) starting at i.
RECURSIVE LineEnd(_, _)
LineEnd(s, i) ==
    IF i > Len(s) \/ s[i] = "\n" THEN i ELSE LineEnd(s, i + 1)

\* /^\s*-+>\s*(.+)/ : the captured remainder, or Undefined.
extractArrowMessage(message) ==
    LET a == RunEnd(message, 1, WsChars)
        b == RunEnd(message, a, {"-"})
        c == IF b <= Len(message) THEN RunEnd(message, b + 1, WsChars) ELSE b
        \* \s* gives characters back until '.' can match one
        starts == {k \in (b + 1)..c : k <= Len(message) /\ message[k] # "\n"}
    IN  IF b = a \/ b > Len(message) \/ message[b] # ">" \/ starts = {}
        THEN Undefined
        ELSE LET k == CHOOSE x \in starts : \A y \in starts : y <= x
             IN  SubSeq(message, k, LineEnd(message, k) - 1)

\* Variant of lib/utils.js, /([a-f0-9]{12}[a-f0-9]*)/g : the first hex run of
\* 12 or more anywhere in the remainder.
extractLayerUnanchored(message) ==
    LET extract == extractArrowMessage(message)
        runs == {i \in 1..Len(extract) :
                    RunEnd(extract, i, HexChars) - i >= MinShaLen}
    IN  IF extract # Undefined /\ runs # {}
        THEN LET i == CHOOSE x \in runs : \A y \in runs : x <= y
             IN  SubSeq(extract, i, RunEnd(extract, i, HexChars) - 1)
        ELSE Undefined

\* Variant, /^([a-f0-9]+)/g : a hex run of any length at the start of the
\* remainder.
extractLayerAnyLength(message) ==
    LET extract == extractArrowMessage(message)
        e == RunEnd(extract, 1, HexChars)
    IN  IF extract # Undefined /\ e - 1 >= 1
        THEN SubSeq(extract, 1, e - 1)
        ELSE Undefined

\* /^([a-f0-9]{12}[a-f0-9]*)/g on the remainder: the hex run at its start.
extractLayer(message) ==
    LET extract == extractArrowMessage(message)
        e == RunEnd(extract, 1, HexChars)
    IN  IF extract # Undefined /\ e - 1 >= MinShaLen
        THEN SubSeq(extract, 1, e - 1)
        ELSE Undefined

\* _.last
\* Variant: a placeholder identifier for the empty list.
LastOrPlaceholder(s) == IF Len(s) = 0 THEN <<"n", "o", "n", "e">> ELSE s[Len(s)]

Last(s) == IF Len(s) = 0 THEN Undefined ELSE s[Len(s)]

(***************************************************************************)
(* Inputs: the daemon's progress lines and decoded records.                *)
(***************************************************************************)
\* " ---> a1b2c3d4e5f6\n"
LineA == <<" ", "-", "-", "-", ">", " ",
           "a", "1", "b", "2", "c", "3", "d", "4", "e", "5", "f", "6", "\n">>
\* "--> 0123456789abc"
LineB == <<"-", "-", ">", " ",
           "0", "1", "2", "3", "4", "5", "6", "7", "8", "9", "a", "b", "c">>
\* "Step 1/2"
LineStep == <<"S", "t", "e", "p", " ", "1", "/", "2">>

Lines == {LineA, LineB, LineStep}

\* "---> Running in a1b2c3d4e5f6"
LineRunning ==
    <<"-", "-", "-", ">", " ", "R", "u", "n", "n", "i", "n", "g",
      " ", "i", "n", " ", "a", "1", "b", "2", "c", "3", "d", "4",
      "e", "5", "f", "6">>
\* "---> a1b2c3d4e5f"
LineShort ==
    <<"-", "-", "-", ">", " ", "a", "1", "b", "2", "c", "3", "d",
      "4", "e", "5", "f">>
\* "---> A1B2C3D4E5F6"
LineUpper ==
    <<"-", "-", "-", ">", " ", "A", "1", "B", "2", "C", "3", "D",
      "4", "E", "5", "F", "6">>
\* "--->"
LineArrowOnly ==
    <<"-", "-", "-", ">">>
\* "a1b2c3d4e5f6"
LineNoArrow ==
    <<"a", "1", "b", "2", "c", "3", "d", "4", "e", "5", "f", "6">>
\* "---> a1b2c3d4e5f6 0123456789abc"
LineTwoRuns ==
    <<"-", "-", "-", ">", " ", "a", "1", "b", "2", "c", "3", "d",
      "4", "e", "5", "f", "6", " ", "0", "1", "2", "3", "4", "5",
      "6", "7", "8", "9", "a", "b", "c">>
\* "x ---> a1b2c3d4e5f6"
LineLateArrow ==
    <<"x", " ", "-", "-", "-", ">", " ", "a", "1", "b", "2", "c",
      "3", "d", "4", "e", "5", "f", "6">>
\* "> a1b2c3d4e5f6"
LineNoDash ==
    <<">", " ", "a", "1", "b", "2", "c", "3", "d", "4", "e", "5",
      "f", "6">>
\* "---> a1b2c3d4e5f 0123456789abc"
LineShortThenLong ==
    <<"-", "-", "-", ">", " ", "a", "1", "b", "2", "c", "3", "d",
      "4", "e", "5", "f", " ", "0", "1", "2", "3", "4", "5", "6",
      "7", "8", "9", "a", "b", "c">>
\* "->\n a1b2c3d4e5f60"
LineBreak ==
    <<"-", ">", "\n", " ", "a", "1", "b", "2", "c", "3", "d",
      "4", "e", "5", "f", "6", "0">>

\* The texts extractLayer is called with: the lines above and the empty text.
Messages ==
    Lines \cup {LineRunning, LineShort, LineUpper, LineArrowOnly, LineNoArrow,
                LineTwoRuns, LineLateArrow, LineNoDash, LineShortThenLong,
                LineBreak, << >>}

\* What the through callback receives as `data`.
StreamRecord(text) == [type |-> "stream", text |-> text]
ErrorRecord == [type |-> "error", text |-> <<"b", "o", "o", "m">>]
OtherErrorRecord == [type |-> "error", text |-> <<"b", "a", "n", "g">>]
NullRecord == [type |-> "null", text |-> Undefined]
\* An object with neither a stream nor an error field ({"status": ...}).
OtherRecord == [type |-> "other", text |-> Undefined]
Records ==
    {StreamRecord(l) : l \in Lines}
        \cup {ErrorRecord, OtherErrorRecord, NullRecord, OtherRecord}

\* The records the daemon's output for build b is made of: the layers of
\* different builds have different digests.
RecordsOf(b) ==
    IF b = "A"
    THEN {StreamRecord(LineA), StreamRecord(LineStep), ErrorRecord}
    ELSE {StreamRecord(LineB), NullRecord, ErrorRecord}

\* new Error(message)
Error(msg) == <<"Error">> \o msg

EngineError == Error(<<"engine">>)
OutputStreamError == Error(<<"output">>)
ChannelErr == Error(<<"channel">>)

(***************************************************************************)
(* Inputs: the hook sets and error handlers a caller supplies.             *)
(***************************************************************************)
HookNames == {"buildStream", "buildSuccess", "buildFailure"}

\* ValidHook of plugin.d.ts: the three names above and buildTransform.
ValidHooks == HookNames \cup {"buildTransform"}

\* What the function registered under a hook name does when applied: it
\* returns a plain value, throws, or returns a deferred result that fulfils
\* or rejects later. hooksNone registers nothing.
HookFns(h) ==
    CASE h = "hooksP" -> [buildStream |-> "returns",
                          buildSuccess |-> "rejects",
                          buildFailure |-> "returns"]
      [] h = "hooksQ" -> [buildStream |-> "throws",
                          buildFailure |-> "throws"]
      [] h = "hooksReturn" -> [n \in HookNames |-> "returns"]
      [] h = "hooksFulfil" -> [n \in HookNames |-> "fulfils"]
      [] h = "hooksThrow" -> [n \in HookNames |-> "throws"]
      [] h = "hooksReject" -> [n \in HookNames |-> "rejects"]
      [] h = "hooksTransform" -> [n \in ValidHooks |-> "returns"]
      [] OTHER -> << >>

\* The hook sets a single build is exercised with.
HookSets == {"hooksNone", "hooksReturn", "hooksFulfil", "hooksThrow",
             "hooksReject", "hooksP", "hooksQ", "hooksTransform"}
HookConfigs == {<<hs, "handlerP">> : hs \in HookSets}

\* The (hooks, handler) arguments of each createBuildStream call: the two
\* builds are started by callers with hook sets and handlers of their own.
\* hooksQ registers no buildSuccess hook.
ConfigOf(b) ==
    IF b = "A" THEN <<"hooksP", "handlerP">> ELSE <<"hooksQ", "handlerQ">>

VARIABLES
    layers,     \* Builder.layers: which array the instance field refers to
    arrays,     \* contents of the array allocated by each createBuildStream
    pc,         \* per build: idle, requested, accepted, rejected
    hooks,      \* per build: the hooks argument (closure)
    handler,    \* per build: the handler argument (closure)
    errored,    \* per build: the closure variable errored
    dup,        \* per build: the duplexify channel
    out,        \* per build: the decoded outputStream
    seen,       \* per build: the records its through callback has processed
    quota,      \* records and faults the environment may still deliver
    calls,      \* per build: the callHook invocations, in order
    handled,    \* per build: the error-handler invocations, in order
    promises,   \* per build: hook results that have not settled yet
    returned,   \* per build: what createBuildStream returned
    events,     \* per build: the engine and channel events so far, in order
    readable,   \* per build: the texts on their way to the channel's reader
    dir,        \* the buildDir invocation: its archive, steps and promise
    probe       \* the extractLayer calls of a caller of utils.ts

vars == <<layers, arrays, pc, hooks, handler, errored, dup, out, seen,
          quota, calls, handled, promises, returned, events, readable, dir,
          probe>>

NoArray == "none"

\* The readable leg of a channel before anything is decoded: `buffered` are
\* the texts the through callback has emitted and the channel has not taken
\* yet, `pushed` the texts the channel has handed to its reader.
NoTexts == [buffered |-> << >>, pushed |-> << >>]

\* No buildDir call yet: no archive, no promise.
NoDir == [pc |-> "idle", tree |-> [files |-> {}, dirs |-> {}],
          config |-> <<"hooksNone", "emptyHandler">>, files |-> << >>,
          read |-> {}, entries |-> << >>, steps |-> << >>,
          piped |-> Undefined,
          promise |-> [state |-> "none", value |-> Undefined]]

\* No extractLayer call yet.
NoProbe == [message |-> Undefined, results |-> << >>]

DupOf(b) == <<"dup", b>>

\* The state after the Builder is constructed, no build called yet; q is
\* what the environment may deliver.
InitBuilder(q) ==
    /\ layers = NoArray
    /\ arrays = [b \in Builds |-> << >>]
    /\ pc = [b \in Builds |-> "idle"]
    /\ hooks = [b \in Builds |-> "hooksNone"]
    /\ handler = [b \in Builds |-> "emptyHandler"]
    /\ errored = [b \in Builds |-> FALSE]
    /\ dup = [b \in Builds |-> [destroyed |-> FALSE, pending |-> "none",
                                by |-> "none", cause |-> Undefined,
                                emitted |-> FALSE, steps |-> << >>]]
    /\ out = [b \in Builds |-> "none"]
    /\ seen = [b \in Builds |-> << >>]
    /\ quota = q
    /\ calls = [b \in Builds |-> << >>]
    /\ handled = [b \in Builds |-> << >>]
    /\ promises = [b \in Builds |-> << >>]
    /\ returned = [b \in Builds |-> Undefined]
    /\ events = [b \in Builds |-> << >>]
    /\ readable = [b \in Builds |-> NoTexts]
    /\ dir = NoDir

\* No caller of utils.ts besides the Builder.
InitWith(q) == InitBuilder(q) /\ probe = NoProbe

Init == InitWith([records |-> MaxRecords, faults |-> MaxFaults])

\* Build b receives the event ev: the call that starts it, the settling of
\* the engine call, a decoded record, the end or an error of the output, a
\* destroy of the channel, its teardown tick or an error of the channel.
Log(b, ev) == events' = [events EXCEPT ![b] = Append(@, ev)]

\* An event is a kind with the record it carries, NoData when it has none.
NoData == [type |-> "none", text |-> Undefined]
Event(kind) == <<kind, NoData>>


(***************************************************************************)
(* duplexify                                                               *)
(***************************************************************************)
\* Duplexify.prototype.destroy(err): idempotent; the teardown itself
\* (_destroy) runs on the next tick. `by` is who destroyed the channel,
\* `cause` the error it was destroyed with (Undefined for destroy()),
\* `emitted` whether the channel has emitted 'error'.
Destroy(d, err, by) ==
    IF d.destroyed THEN d
    ELSE [d EXCEPT !.destroyed = TRUE,
                   !.pending = IF err = Undefined THEN "noerr" ELSE "err",
                   !.by = by,
                   !.cause = err]

\* process.nextTick runs a pending teardown as soon as the running callback
\* returns, before any other I/O callback, promise callback or caller code.
NoTeardownPending == \A o \in Builds : dup[o].pending = "none"

\* Between a daemon error record and the teardown it asked for, only the
\* records decoded from the same chunk reach the same through callback.
SameChunk(b) ==
    \A o \in Builds : dup[o].pending # "none" => (o = b /\ dup[o].by = "daemon")

(***************************************************************************)
(* Builder.callHook                                                        *)
(***************************************************************************)
\* The list an array reference denotes when a hook receives it.
ListOf(ref) == IF ref = NoArray THEN << >> ELSE arrays[ref]

\* `hook in hooks` and _.isFunction(fn)
Registered(hs, hook) == hook \in DOMAIN HookFns(hs)

\* What fn.apply(null, args) does, "absent" when there is no function.
Behaviour(hs, hook) ==
    IF Registered(hs, hook) THEN HookFns(hs)[hook] ELSE "absent"

\* One callHook invocation, as the entry it leaves in the build's log: the
\* hook set it went to, its arguments (the list as it is at the call) and
\* how many records the build had processed by then.
CallEntry(b, hs, hook, arg, ref) ==
    [hook |-> hook, to |-> hs, ran |-> Registered(hs, hook),
     arg |-> arg, ref |-> ref, list |-> ListOf(ref), at |-> Len(seen[b])]

\* Variant: a dispatch to a hook that is not registered is reported to the
\* handler as well.
SyncHandlerCallsOnAbsent(hs, hook, h) ==
    IF Behaviour(hs, hook) \in {"throws", "absent"}
    THEN << [handler |-> h, hook |-> hook, how |-> "thrown"] >>
    ELSE << >>

\* Variant: the exception of a hook is swallowed without telling the handler.
SyncHandlerCallsNone(hs, hook, h) == << >>

\* catch (e) { handler(e) }: the handler invocations of one callHook.
SyncHandlerCalls(hs, hook, h) ==
    IF Behaviour(hs, hook) = "throws"
    THEN << [handler |-> h, hook |-> hook, how |-> "thrown"] >>
    ELSE << >>

\* Variant: the handler is not attached to what the hook returns.
AttachedCatchesNone(hs, hook, h) == << >>

\* val.catch(handler): the deferred results one callHook has attached the
\* handler to, each with the way it is going to settle.
AttachedCatches(hs, hook, h) ==
    CASE Behaviour(hs, hook) = "rejects" ->
            << [handler |-> h, hook |-> hook, how |-> "rejected"] >>
      [] Behaviour(hs, hook) = "fulfils" ->
            << [handler |-> h, hook |-> hook, how |-> "fulfilled"] >>
      [] OTHER -> << >>

\* Variant: no try/catch around the hook, and the exception of a buildSuccess
\* hook takes the build to its failure path.
callHookUnguarded(b, hs, hook, h, arg, ref) ==
    /\ calls' = [calls EXCEPT ![b] =
            Append(@, CallEntry(b, hs, hook, arg, ref))
            \o (IF hook = "buildSuccess" /\ Behaviour(hs, hook) = "throws"
                THEN << CallEntry(b, hs, "buildFailure", <<"Error", "hook">>, ref) >>
                ELSE << >>)]
    /\ handled' = [handled EXCEPT ![b] = @ \o SyncHandlerCalls(hs, hook, h)]
    /\ promises' = [promises EXCEPT ![b] = @ \o AttachedCatches(hs, hook, h)]

\* callHook(hooks, hook, handler, arg, <array ref>) called by build b.
callHook(b, hs, hook, h, arg, ref) ==
    /\ calls' = [calls EXCEPT ![b] = Append(@, CallEntry(b, hs, hook, arg, ref))]
    /\ handled' = [handled EXCEPT ![b] = @ \o SyncHandlerCalls(hs, hook, h)]
    /\ promises' = [promises EXCEPT ![b] = @ \o AttachedCatches(hs, hook, h)]

NoHook == UNCHANGED <<calls, handled, promises>>

\* s without its i-th element.
RemoveAt(s, i) == SubSeq(s, 1, i - 1) \o SubSeq(s, i + 1, Len(s))

\* A rejected hook result reaches the handler attached by val.catch(handler).
\* Deferred results settle in any order, at any later step.
HookRejection(b) ==
    /\ NoTeardownPending
    /\ \E i \in DOMAIN promises[b] :
            /\ promises[b][i].how = "rejected"
            /\ handled' = [handled EXCEPT ![b] = Append(@, promises[b][i])]
            /\ promises' = [promises EXCEPT ![b] = RemoveAt(@, i)]
    /\ UNCHANGED <<layers, arrays, pc, hooks, handler, errored, dup, out,
                   seen, quota, calls, returned, events,
                   readable, dir, probe>>

\* A hook result that fulfils: the handler attached to it is not called.
HookFulfilment(b) ==
    /\ NoTeardownPending
    /\ \E i \in DOMAIN promises[b] :
            /\ promises[b][i].how = "fulfilled"
            /\ promises' = [promises EXCEPT ![b] = RemoveAt(@, i)]
    /\ UNCHANGED <<layers, arrays, pc, hooks, handler, errored, dup, out,
                   seen, quota, calls, handled, returned, events,
                   readable, dir, probe>>

(***************************************************************************)
(* Builder.createBuildStream                                               *)
(***************************************************************************)
\* Variant: the hook set is kept on the Builder instance, where the latest
\* createBuildStream call has put its own.
HooksForInstance(b) == IF layers = NoArray THEN hooks[b] ELSE hooks[layers]

\* The hooks and handler the callbacks of build b close over: the parameters
\* of that build's own createBuildStream call.
HooksFor(b) == hooks[b]
HandlerFor(b) == handler[b]

\* Variant: the hook is handed the engine's input stream.
HookStreamArgInput(b) == <<"inputStream", b>>

\* What createBuildStream hands to the buildStream hook.
HookStreamArg(b) == DupOf(b)

\* What createBuildStream returns.
ReturnValue(b) == DupOf(b)

\* Variant: the list of the previous build is kept.
FreshLayersKept == ListOf(layers)

\* this.layers = []
FreshLayers == << >>

\* let errored = false
FreshErrored == FALSE

\* Variant: createBuildStream hands the channel to buildTransform as well.
StartDispatchWithTransform(b, cfg) ==
    /\ calls' = [calls EXCEPT ![b] =
            @ \o << CallEntry(b, cfg[1], "buildStream", HookStreamArg(b), NoArray),
                    CallEntry(b, cfg[1], "buildTransform", HookStreamArg(b), NoArray) >>]
    /\ handled' = [handled EXCEPT ![b] =
            @ \o SyncHandlerCalls(cfg[1], "buildStream", cfg[2])]
    /\ promises' = [promises EXCEPT ![b] =
            @ \o AttachedCatches(cfg[1], "buildStream", cfg[2])]

\* Variant: createBuildStream does not dispatch buildStream.
StartDispatchMissing(b, cfg) == NoHook

\* this.callHook(hooks, 'buildStream', handler, dup)
StartDispatch(b, cfg) ==
    callHook(b, cfg[1], "buildStream", cfg[2], HookStreamArg(b), NoArray)

\* createBuildStream(buildOpts, hooks, handler) up to its return, called
\* with cfg = <<hooks, handler>>: the callbacks of the engine promise run
\* later.
\* Variant: the engine is asked for the build before the input stream is
\* made the write side of the channel.
StartStepsRequestFirst == <<"buildImage", "setWritable", "buildStream">>

\* What createBuildStream does with the channel it has created, in the order
\* of its statements: dup.setWritable(inputStream), then
\* this.docker.buildImage(inputStream, buildOpts), then the buildStream
\* dispatch.
StartSteps == <<"setWritable", "buildImage", "buildStream">>

\* Variant: the read side is bound before the listeners are attached.
ResolveStepsReadableFirst ==
    <<"setReadable", "outputStream.on error", "dup.on error",
      "outputStream.on end">>

\* What the .then callback does with the channel once the output stream is
\* assembled, in the order of its statements: the three listeners, then
\* dup.setReadable(outputStream).
ResolveSteps ==
    <<"outputStream.on error", "dup.on error", "outputStream.on end",
      "setReadable">>

createBuildStream(b, cfg) ==
    /\ pc[b] = "idle"
    /\ Log(b, Event("start"))
    /\ NoTeardownPending
    /\ layers' = b
    /\ arrays' = [arrays EXCEPT ![b] = FreshLayers]
    /\ hooks' = [hooks EXCEPT ![b] = cfg[1]]
    /\ handler' = [handler EXCEPT ![b] = cfg[2]]
    /\ pc' = [pc EXCEPT ![b] = "requested"]
    /\ StartDispatch(b, cfg)
    /\ returned' = [returned EXCEPT ![b] = ReturnValue(b)]
    /\ dup' = [dup EXCEPT ![b].steps = @ \o StartSteps]
    /\ UNCHANGED <<errored, out, seen, quota, readable, probe>>

\* A caller starts build b with createBuildStream itself.
StartWith(b, cfg) == createBuildStream(b, cfg) /\ UNCHANGED dir

\* The createBuildStream call of build b, with the arguments of its caller.
Start(b) == StartWith(b, ConfigOf(b))

\* .then((res) => ...): the engine accepted the build; the output stream is
\* decoded, the listeners are attached and dup.setReadable(outputStream)
\* destroys the output stream when the channel is already destroyed.
EngineResolve(b) ==
    /\ pc[b] = "requested"
    /\ Log(b, Event("resolve"))
    /\ NoTeardownPending
    /\ pc' = [pc EXCEPT ![b] = "accepted"]
    /\ errored' = [errored EXCEPT ![b] = FreshErrored]
    /\ out' = [out EXCEPT ![b] = IF dup[b].destroyed THEN "closed" ELSE "open"]
    /\ dup' = [dup EXCEPT ![b].steps = @ \o ResolveSteps]
    /\ NoHook
    /\ UNCHANGED <<layers, arrays, hooks, handler, seen, quota, returned,
                   readable, dir, probe>>

\* Variant: the .catch callback asks the engine for the build again.
EngineRejectRetry(b) ==
    /\ pc[b] = "requested"
    /\ Log(b, Event("reject"))
    /\ NoTeardownPending
    /\ pc' = [pc EXCEPT ![b] = "requested"]
    /\ dup' = [dup EXCEPT ![b].steps = Append(@, "buildImage")]
    /\ callHook(b, HooksFor(b), "buildFailure", HandlerFor(b), EngineError, layers)
    /\ UNCHANGED <<layers, arrays, hooks, handler, errored, out, seen,
                   quota, returned,
                   readable, dir, probe>>

\* .catch((err) => ...): the engine rejected the build request.
EngineReject(b) ==
    /\ pc[b] = "requested"
    /\ Log(b, Event("reject"))
    /\ NoTeardownPending
    /\ pc' = [pc EXCEPT ![b] = "rejected"]
    /\ callHook(b, HooksFor(b), "buildFailure", HandlerFor(b), EngineError, layers)
    /\ UNCHANGED <<layers, arrays, hooks, handler, errored, dup, out, seen,
                   quota, returned,
                   readable, dir, probe>>

\* self.layers.push(sha): the array Builder.layers refers to now.
PushLayer(sha) ==
    IF sha # Undefined /\ layers # NoArray
    THEN [arrays EXCEPT ![layers] = Append(@, sha)]
    ELSE arrays

\* this.emit('data', data.stream): what the through callback emits for a
\* record it does not return early on; a record without a stream field has
\* it undefined.
Emitted(data) == IF data.type \in {"null", "error"} THEN Undefined ELSE data.text

\* The wrapper duplexify reads the output stream through
\* (Readable.wrap in object mode) skips the undefined chunks.
WrapPush(buffered, chunk) ==
    IF chunk = Undefined THEN buffered ELSE Append(buffered, chunk)

\* The es.through callback on one decoded record. The output stream keeps
\* delivering the records already decoded until it is closed.
Record(b, data) ==
    /\ pc[b] = "accepted"
    /\ Log(b, <<"record", data>>)
    /\ out[b] = "open"
    /\ SameChunk(b)
    /\ quota.records > 0
    /\ quota' = [quota EXCEPT !.records = @ - 1]
    /\ seen' = [seen EXCEPT ![b] = Append(@, data)]
    /\ IF data.type = "null"
       THEN UNCHANGED <<errored, dup, arrays>>
       ELSE IF data.type = "error"
       THEN /\ errored' = [errored EXCEPT ![b] = TRUE]
            /\ dup' = [dup EXCEPT ![b] = Destroy(@, Error(data.text), "daemon")]
            /\ UNCHANGED arrays
       ELSE /\ arrays' = PushLayer(extractLayer(data.text))
            /\ UNCHANGED <<errored, dup>>
    /\ readable' = [readable EXCEPT ![b].buffered = WrapPush(@, Emitted(data))]
    /\ NoHook
    /\ UNCHANGED <<layers, pc, hooks, handler, out, returned, dir, probe>>

\* Variant: the 'end' listener reports success without looking at errored.
OutputEndUnguarded(b) ==
    /\ pc[b] = "accepted"
    /\ Log(b, Event("end"))
    /\ out[b] = "open"
    /\ NoTeardownPending
    /\ out' = [out EXCEPT ![b] = "ended"]
    /\ callHook(b, HooksFor(b), "buildSuccess", HandlerFor(b),
                Last(ListOf(layers)), layers)
    /\ UNCHANGED <<layers, arrays, pc, hooks, handler, errored, dup, seen,
                   quota, returned, readable, dir, probe>>

\* outputStream.on('end', ...)
OutputEnd(b) ==
    /\ pc[b] = "accepted"
    /\ Log(b, Event("end"))
    /\ out[b] = "open"
    /\ NoTeardownPending
    /\ out' = [out EXCEPT ![b] = "ended"]
    /\ IF ~errored[b]
       THEN callHook(b, HooksFor(b), "buildSuccess", HandlerFor(b),
                     Last(ListOf(layers)), layers)
       ELSE NoHook
    /\ UNCHANGED <<layers, arrays, pc, hooks, handler, errored, dup, seen,
                   quota, returned,
                   readable, dir, probe>>

\* outputStream.on('error', ...). The pipe into the output stream is undone
\* by the error, and duplexify's end-of-stream watcher destroys the channel
\* with it.
OutputError(b) ==
    /\ pc[b] = "accepted"
    /\ Log(b, Event("output error"))
    /\ out[b] = "open"
    /\ NoTeardownPending
    /\ quota.faults > 0
    /\ quota' = [quota EXCEPT !.faults = @ - 1]
    /\ out' = [out EXCEPT ![b] = "unpiped"]
    /\ errored' = [errored EXCEPT ![b] = TRUE]
    /\ dup' = [dup EXCEPT ![b] = Destroy(@, OutputStreamError, "output")]
    /\ callHook(b, HooksFor(b), "buildFailure", HandlerFor(b),
                OutputStreamError, layers)
    /\ UNCHANGED <<layers, arrays, pc, hooks, handler, seen, returned,
                   readable, dir, probe>>

\* Variant: the listener of the channel clears the flag.
OnDupErrorClears(b, err) ==
    /\ errored' = [errored EXCEPT ![b] = FALSE]
    /\ callHook(b, HooksFor(b), "buildFailure", HandlerFor(b), err, layers)

\* Variant: the failure of the build is reported to the error handler too.
OnDupErrorToHandler(b, err) ==
    /\ errored' = [errored EXCEPT ![b] = TRUE]
    /\ calls' = [calls EXCEPT ![b] =
                    Append(@, CallEntry(b, HooksFor(b), "buildFailure", err, layers))]
    /\ handled' = [handled EXCEPT ![b] =
                    (@ \o SyncHandlerCalls(HooksFor(b), "buildFailure", HandlerFor(b)))
                    \o << [handler |-> HandlerFor(b), hook |-> "buildFailure",
                           how |-> "failure"] >>]
    /\ promises' = [promises EXCEPT ![b] =
                    @ \o AttachedCatches(HooksFor(b), "buildFailure", HandlerFor(b))]

\* dup.on('error', ...) as a handler body.
OnDupError(b, err) ==
    /\ errored' = [errored EXCEPT ![b] = TRUE]
    /\ callHook(b, HooksFor(b), "buildFailure", HandlerFor(b), err, layers)

\* Variant: the teardown reports a generic channel error.
DestroyCauseGeneric(b) == ChannelErr

\* The error a destroyed channel emits: the one it was destroyed with, by
\* the through callback (new Error(data.error)), by the end-of-stream
\* watcher of the output stream, or by the holder of the channel.
DestroyCause(b) == dup[b].cause

\* duplexify's _destroy on the tick after destroy(err): emits 'error' when
\* destroyed with one, destroys the output stream, closes.
DestroyTick(b) ==
    /\ dup[b].pending # "none"
    /\ Log(b, Event("tick"))
    /\ dup' = [dup EXCEPT ![b].pending = "none",
                          ![b].emitted = @ \/ dup[b].pending = "err"]
    /\ IF dup[b].pending = "err" /\ pc[b] = "accepted"
       THEN OnDupError(b, DestroyCause(b))
       ELSE NoHook /\ UNCHANGED errored
    /\ out' = [out EXCEPT ![b] =
                IF @ \in {"open", "unpiped", "stalled"} THEN "closed" ELSE @]
    /\ UNCHANGED <<layers, arrays, pc, hooks, handler, seen, quota, returned,
                   readable, dir, probe>>

\* The caller (or a failing input stream) destroys the channel it was
\* given, with or without an error.
DestroyChannel(b, withErr) ==
    /\ pc[b] # "idle"
    /\ Log(b, Event(IF withErr THEN "destroy(err)" ELSE "destroy()"))
    /\ ~dup[b].destroyed
    /\ NoTeardownPending
    /\ quota.faults > 0
    /\ quota' = [quota EXCEPT !.faults = @ - 1]
    /\ dup' = [dup EXCEPT ![b] = Destroy(@, IF withErr THEN ChannelErr ELSE Undefined, "holder")]
    /\ NoHook
    /\ UNCHANGED <<layers, arrays, pc, hooks, handler, errored, out, seen,
                   returned,
                   readable, dir, probe>>

\* The channel emits 'error' on its own (a write after end), with the
\* listener of the .then callback attached.
ChannelError(b) ==
    /\ pc[b] = "accepted"
    /\ Log(b, Event("channel error"))
    /\ NoTeardownPending
    /\ quota.faults > 0
    /\ quota' = [quota EXCEPT !.faults = @ - 1]
    /\ dup' = [dup EXCEPT ![b].emitted = TRUE]
    /\ OnDupError(b, ChannelErr)
    /\ UNCHANGED <<layers, arrays, pc, hooks, handler, out, seen, returned,
                   readable, dir, probe>>

\* Duplexify.prototype._forward, run when the reader of the channel asks for
\* more (_read, which sets _drained): the texts the wrapper holds are pushed
\* to the reader, and skipped once the channel is destroyed.
Forward(b) ==
    /\ readable[b].buffered # << >>
    /\ NoTeardownPending
    /\ readable' = [readable EXCEPT ![b] =
            [buffered |-> << >>,
             pushed |-> IF dup[b].destroyed THEN @.pushed
                        ELSE @.pushed \o @.buffered]]
    /\ UNCHANGED <<layers, arrays, pc, hooks, handler, errored, dup, out, seen,
                   quota, calls, handled, promises, returned, events, dir,
                   probe>>

\* A line of the engine's output that is not JSON: JSONStream.parse() emits
\* 'error' on the parser stream, which undoes the pipe from the response
\* into the parser (and is rethrown when nothing listens for it). The
\* through callback and the listeners of createBuildStream are not reached,
\* then or later.
Malformed(b) ==
    /\ pc[b] = "accepted"
    /\ Log(b, Event("malformed"))
    /\ out[b] = "open"
    /\ NoTeardownPending
    /\ quota.records > 0
    /\ quota' = [quota EXCEPT !.records = @ - 1]
    /\ out' = [out EXCEPT ![b] = "stalled"]
    /\ NoHook
    /\ UNCHANGED <<layers, arrays, pc, hooks, handler, errored, dup, seen,
                   returned, readable, dir, probe>>

(***************************************************************************)
(* Builder.buildDir and utils.ts : directoryToFiles                        *)
(***************************************************************************)
\* path.resolve(dirPath): a path is the list of its names.
Root == <<"ctx">>

\* The files a directory tree can hold, by their path below the root.
CandidateFiles ==
    {<<"Dockerfile">>, <<"src", "app">>, <<"src", "lib", "x">>, <<"README">>}

\* The directories on the way from the root to a file.
Parents(f) == {SubSeq(f, 1, k) : k \in 1..(Len(f) - 1)}

\* The directory trees: at most MaxFiles files, the directories they are
\* in, and possibly a directory with nothing in it.
Trees ==
    {[files |-> F, dirs |-> UNION {Parents(f) : f \in F} \cup E] :
        F \in {G \in SUBSET CandidateFiles : Cardinality(G) <= MaxFiles},
        E \in {{}, {<<"empty">>}}}

\* The items klaw(dirPath) emits: the root, every directory and every file
\* below it, each with its full path and its stats.
Items(tree) ==
    {[path |-> Root \o f, isDirectory |-> FALSE] : f \in tree.files}
        \cup {[path |-> Root \o d, isDirectory |-> TRUE] :
                    d \in tree.dirs \cup {<< >>}}

\* Variant: the directories are listed as well.
directoryToFilesAndDirs(tree) == {item.path : item \in Items(tree)}

\* directoryToFiles: the paths of the items that are not directories.
directoryToFiles(tree) ==
    {item.path : item \in {it \in Items(tree) : ~it.isDirectory}}

\* The orders in which the walk can list a set of paths.
Orderings(S) ==
    {s \in [1..Cardinality(S) -> S] :
        \A i, j \in 1..Cardinality(S) : s[i] = s[j] => i = j}

\* Length of the longest common prefix of two paths.
RECURSIVE CommonLen(_, _)
CommonLen(p, q) ==
    IF p = << >> \/ q = << >> \/ Head(p) # Head(q) THEN 0
    ELSE 1 + CommonLen(Tail(p), Tail(q))

\* path.relative(from, to): up from `from` to the common ancestor, then
\* down to `to`.
Relative(from, to) ==
    LET k == CommonLen(from, to)
    IN  [i \in 1..(Len(from) - k) |-> ".."] \o SubSeq(to, k + 1, Len(to))

\* The build a buildDir call starts.
DirBuild == "A"

\* buildDir(dirPath, buildOpts, hooks, handler) up to its return: the
\* archive is created and the walk of the directory begun.
buildDir(tree, cfg) ==
    /\ dir.pc = "idle"
    /\ pc[DirBuild] = "idle"
    /\ dir' = [NoDir EXCEPT !.pc = "walking", !.tree = tree, !.config = cfg,
                            !.promise = [state |-> "pending", value |-> Undefined]]
    /\ UNCHANGED <<layers, arrays, pc, hooks, handler, errored, dup, out, seen,
                   quota, calls, handled, promises, returned, events,
                   readable, probe>>

\* klaw 'end': directoryToFiles resolves with the files in the order of the
\* walk, and the first .map starts fs.stat and fs.readFile of every file.
WalkEnd(files) ==
    /\ dir.pc = "walking"
    /\ dir' = [dir EXCEPT !.pc = "reading", !.files = files]
    /\ UNCHANGED <<layers, arrays, pc, hooks, handler, errored, dup, out, seen,
                   quota, calls, handled, promises, returned, events,
                   readable, probe>>

\* A rejection in the chain before .then: the promise of buildDir rejects
\* and the later callbacks of the chain are skipped.
Rejected(d, why) ==
    [d EXCEPT !.pc = "rejected", !.steps = Append(@, why),
              !.promise = [state |-> "rejected", value |-> Error(<<why>>)]]

\* klaw 'error': directoryToFiles rejects.
WalkError ==
    /\ dir.pc = "walking"
    /\ dir' = Rejected(dir, "walk error")
    /\ UNCHANGED <<layers, arrays, pc, hooks, handler, errored, dup, out, seen,
                   quota, calls, handled, promises, returned, events,
                   readable, probe>>

\* Bluebird.all([relPath, fs.stat(file), fs.readFile(file)]) of the i-th
\* file fulfils; the reads of the files complete in any order.
ReadFile(i) ==
    /\ dir.pc = "reading"
    /\ i \in DOMAIN dir.files \ dir.read
    /\ dir' = [dir EXCEPT !.read = @ \cup {i}]
    /\ UNCHANGED <<layers, arrays, pc, hooks, handler, errored, dup, out, seen,
                   quota, calls, handled, promises, returned, events,
                   readable, probe>>

\* Variant: a file that cannot be read is left out and the chain goes on.
ReadFailSkipped(i) ==
    /\ dir.pc = "reading"
    /\ i \in DOMAIN dir.files \ dir.read
    /\ dir' = [dir EXCEPT !.read = @ \cup {i}, !.steps = Append(@, "read error")]
    /\ UNCHANGED <<layers, arrays, pc, hooks, handler, errored, dup, out, seen,
                   quota, calls, handled, promises, returned, events,
                   readable, probe>>

\* fs.stat or fs.readFile of the i-th file fails: the first .map rejects.
ReadFail(i) ==
    /\ dir.pc = "reading"
    /\ i \in DOMAIN dir.files \ dir.read
    /\ dir' = Rejected(dir, "read error")
    /\ UNCHANGED <<layers, arrays, pc, hooks, handler, errored, dup, out, seen,
                   quota, calls, handled, promises, returned, events,
                   readable, probe>>

\* The second .map, once every file is read: pack.entry({ name: relPath,
\* size }, content, callback) for each file, in the order of the list.
PackEntries ==
    /\ dir.pc = "reading"
    /\ dir.read = DOMAIN dir.files
    /\ dir' = [dir EXCEPT
            !.pc = "packing",
            !.entries = [i \in DOMAIN dir.files |-> Relative(Root, dir.files[i])],
            !.steps = @ \o [i \in DOMAIN dir.files |-> "entry"]]
    /\ UNCHANGED <<layers, arrays, pc, hooks, handler, errored, dup, out, seen,
                   quota, calls, handled, promises, returned, events,
                   readable, probe>>

\* Variant: the archive is connected before the build is started.
ThenStepsPipeFirst == <<"pipe", "finalize", "createBuildStream">>

\* The statements of the .then callback, in order: pack.finalize(),
\* this.createBuildStream(...), pack.pipe(stream).
ThenSteps == <<"finalize", "createBuildStream", "pipe">>

\* .then(() => ...), once every entry callback has run: the archive is
\* finalized, the build started, the archive piped into the channel the
\* build returned, and the promise of buildDir resolves with that channel.
BuildDirThen ==
    /\ dir.pc = "packing"
    /\ createBuildStream(DirBuild, dir.config)
    /\ dir' = [dir EXCEPT
            !.pc = "started",
            !.steps = @ \o ThenSteps,
            !.piped = ReturnValue(DirBuild),
            !.promise = [state |-> "resolved", value |-> ReturnValue(DirBuild)]]

(***************************************************************************)
(* A caller of utils.ts : extractLayer                                     *)
(***************************************************************************)
\* Variant: shaRegex is created once, outside the function; with its g flag
\* exec resumes at the lastIndex the call before left, where a pattern
\* anchored with ^ cannot match.
ExtractSharedRegex(next) ==
    LET lastIndex == IF probe.results = << >> THEN 0
                     ELSE Len(Last(probe.results).sha)
        sha == IF lastIndex = 0 THEN extractLayer(probe.message) ELSE Undefined
    IN  /\ Len(probe.results) < MaxCalls
        /\ probe' = [message |-> next,
                     results |-> Append(probe.results,
                                  [message |-> probe.message, sha |-> sha])]
        /\ UNCHANGED <<layers, arrays, pc, hooks, handler, errored, dup, out,
                       seen, quota, calls, handled, promises, returned,
                       events, readable, dir>>

\* extractLayer(message) called on the text at hand; the caller notes the
\* result and goes on to its next text. shaRegex and arrowTest are created
\* by each call.
Extract(next) ==
    /\ Len(probe.results) < MaxCalls
    /\ probe' = [message |-> next,
                 results |-> Append(probe.results,
                              [message |-> probe.message,
                               sha |-> extractLayer(probe.message)])]
    /\ UNCHANGED <<layers, arrays, pc, hooks, handler, errored, dup, out,
                   seen, quota, calls, handled, promises, returned,
                   events, readable, dir>>

Next ==
    \/ \E b \in Builds : Start(b)
    \/ \E b \in Builds : EngineResolve(b)
    \/ \E b \in Builds : EngineReject(b)
    \/ \E b \in Builds : \E data \in RecordsOf(b) : Record(b, data)
    \/ \E b \in Builds : OutputEnd(b)
    \/ \E b \in Builds : OutputError(b)
    \/ \E b \in Builds : DestroyTick(b)
    \/ \E b \in Builds, withErr \in BOOLEAN : DestroyChannel(b, withErr)
    \/ \E b \in Builds : ChannelError(b)
    \/ \E b \in Builds : HookRejection(b)

Spec == Init /\ [][Next]_vars

\* One build on a Builder of its own, started with any of the hook sets;
\* the daemon's output can carry error records with different messages.
HookBuild == "A"
HookRecords == RecordsOf(HookBuild) \cup {OtherErrorRecord}

HookNext ==
    \/ \E cfg \in HookConfigs : StartWith(HookBuild, cfg)
    \/ EngineResolve(HookBuild)
    \/ EngineReject(HookBuild)
    \/ \E data \in HookRecords : Record(HookBuild, data)
    \/ OutputEnd(HookBuild)
    \/ OutputError(HookBuild)
    \/ DestroyTick(HookBuild)
    \/ \E withErr \in BOOLEAN : DestroyChannel(HookBuild, withErr)
    \/ ChannelError(HookBuild)
    \/ HookRejection(HookBuild)
    \/ HookFulfilment(HookBuild)

HookSpec == Init /\ [][HookNext]_vars

\* Two builds, one after the other on the same Builder, that receive the
\* same engine and channel events: the leader is called with hooks that
\* return normally and receives any events within the bounds; the
\* follower, called with any of the hook sets once the leader has received
\* its last event, receives the events of the leader one by one.
PairLeader == "A"
PairFollower == "B"
ReferenceConfig == <<"hooksReturn", "handlerP">>

\* A step of the leader: the follower has not been called yet, and the
\* leader leaves the follower a quota as large as its own.
Leads ==
    /\ pc[PairFollower] = "idle"
    /\ quota'.records >= MaxRecords
    /\ quota'.faults >= MaxFaults

\* A step of the follower: its events so far are the first events of the
\* leader.
Follows ==
    /\ Len(events'[PairFollower]) <= Len(events'[PairLeader])
    /\ events'[PairFollower]
         = SubSeq(events'[PairLeader], 1, Len(events'[PairFollower]))

PairNext ==
    \/ StartWith(PairLeader, ReferenceConfig) /\ Leads
    \/ EngineResolve(PairLeader) /\ Leads
    \/ EngineReject(PairLeader) /\ Leads
    \/ (\E data \in RecordsOf(PairLeader) : Record(PairLeader, data)) /\ Leads
    \/ OutputEnd(PairLeader) /\ Leads
    \/ OutputError(PairLeader) /\ Leads
    \/ DestroyTick(PairLeader) /\ Leads
    \/ (\E withErr \in BOOLEAN : DestroyChannel(PairLeader, withErr)) /\ Leads
    \/ ChannelError(PairLeader) /\ Leads
    \/ (\E cfg \in HookConfigs : StartWith(PairFollower, cfg)) /\ Follows
    \/ EngineResolve(PairFollower) /\ Follows
    \/ EngineReject(PairFollower) /\ Follows
    \/ (\E data \in RecordsOf(PairLeader) : Record(PairFollower, data)) /\ Follows
    \/ OutputEnd(PairFollower) /\ Follows
    \/ OutputError(PairFollower) /\ Follows
    \/ DestroyTick(PairFollower) /\ Follows
    \/ (\E withErr \in BOOLEAN : DestroyChannel(PairFollower, withErr)) /\ Follows
    \/ ChannelError(PairFollower) /\ Follows
    \/ HookRejection(PairFollower)
    \/ HookFulfilment(PairFollower)

\* One build whose decoded output is followed record by record: the daemon
\* sends records of every shape and lines that are not JSON, and the reader
\* of the channel takes the texts when it asks for them.
DecodeBuild == "A"
DecodeConfig == <<"hooksReturn", "handlerP">>
DecodeRecords ==
    {StreamRecord(LineA), StreamRecord(LineStep), ErrorRecord, NullRecord,
     OtherRecord}

DecodeNext ==
    \/ StartWith(DecodeBuild, DecodeConfig)
    \/ EngineResolve(DecodeBuild)
    \/ EngineReject(DecodeBuild)
    \/ \E data \in DecodeRecords : Record(DecodeBuild, data)
    \/ Malformed(DecodeBuild)
    \/ Forward(DecodeBuild)
    \/ OutputEnd(DecodeBuild)
    \/ OutputError(DecodeBuild)
    \/ DestroyTick(DecodeBuild)
    \/ \E withErr \in BOOLEAN : DestroyChannel(DecodeBuild, withErr)
    \/ ChannelError(DecodeBuild)

DecodeSpec == Init /\ [][DecodeNext]_vars

\* One buildDir call on a Builder of its own, for any of the directory
\* trees, followed by the build it starts.
DirConfigs == {<<hs, "handlerP">> : hs \in {"hooksNone", "hooksReturn", "hooksTransform"}}

DirNext ==
    \/ \E tree \in Trees, cfg \in DirConfigs : buildDir(tree, cfg)
    \/ \E files \in Orderings(directoryToFiles(dir.tree)) : WalkEnd(files)
    \/ WalkError
    \/ \E i \in DOMAIN dir.files : ReadFile(i)
    \/ \E i \in DOMAIN dir.files : ReadFail(i)
    \/ PackEntries
    \/ BuildDirThen
    \/ EngineResolve(DirBuild)
    \/ EngineReject(DirBuild)
    \/ \E data \in RecordsOf(DirBuild) : Record(DirBuild, data)
    \/ OutputEnd(DirBuild)
    \/ DestroyTick(DirBuild)

DirSpec == Init /\ [][DirNext]_vars

\* extractLayer on its own: a caller applies it to one text after the other,
\* the first text being any of Messages.
LayerInit ==
    /\ InitBuilder([records |-> MaxRecords, faults |-> MaxFaults])
    /\ probe \in {[message |-> m, results |-> << >>] : m \in Messages}

LayerNext == \E next \in Messages : Extract(next)

LayerSpec == LayerInit /\ [][LayerNext]_vars

\* Each of the two runs has the quota of records and faults of one build.
PairInit == InitWith([records |-> 2 * MaxRecords, faults |-> 2 * MaxFaults])

PairSpec == PairInit /\ [][PairNext]_vars


(***************************************************************************)
(* Vocabulary of the properties                                            *)
(***************************************************************************)
TerminalHooks == {"buildSuccess", "buildFailure"}

\* Positions of the dispatches of hook h in the log of build b.
Dispatches(b, h) == {i \in DOMAIN calls[b] : calls[b][i].hook = h}

HookCount(b, h) == Cardinality(Dispatches(b, h))

HasTerminal(b) == \E h \in TerminalHooks : Dispatches(b, h) # {}

\* Positions of the daemon error records among the records b processed.
ErrorPositions(b) == {i \in DOMAIN seen[b] : seen[b][i].type = "error"}

\* The digests the Stream records of a record sequence yield, in order.
RECURSIVE DigestsOf(_)
DigestsOf(recs) ==
    IF recs = << >> THEN << >>
    ELSE LET r == Head(recs)
             sha == IF r.type = "stream" THEN extractLayer(r.text) ELSE Undefined
         IN  (IF sha # Undefined THEN <<sha>> ELSE << >>) \o DigestsOf(Tail(recs))

\* The digests of the first n records build b processed.
OwnDigests(b, n) == DigestsOf(SubSeq(seen[b], 1, n))

Range(f) == {f[i] : i \in DOMAIN f}

\* The engine call has settled and the output stream of b has ended or is
\* torn down, with no teardown still to run.
Settled(b) ==
    \/ pc[b] = "rejected"
    \/ /\ pc[b] = "accepted"
       /\ out[b] \in {"ended", "closed"}
       /\ dup[b].pending = "none"

\* Positions of the dispatches of build b to a hook that behaves as `how`.
DispatchesThat(b, h, how) ==
    {i \in Dispatches(b, h) : Behaviour(calls[b][i].to, h) = how}

\* Positions of the handler invocations of build b for hook h, by kind.
HandlerCalls(b, h, how) ==
    {j \in DOMAIN handled[b] : handled[b][j].hook = h /\ handled[b][j].how = how}

\* Deferred results of hook h that build b still waits for, by kind.
Pending(b, h, how) ==
    {j \in DOMAIN promises[b] : promises[b][j].hook = h /\ promises[b][j].how = how}

(***************************************************************************)
(* Properties                                                              *)
(***************************************************************************)
\* C1: within one build, buildSuccess and buildFailure are never both
\* dispatched.
C1_NeverBothTerminals ==
    \A b \in Builds :
        ~(Dispatches(b, "buildSuccess") # {} /\ Dispatches(b, "buildFailure") # {})

\* C2: buildFailure is dispatched at most once per build, whatever the
\* failure source.
C2_AtMostOneFailure ==
    \A b \in Builds : HookCount(b, "buildFailure") <= 1

\* C3: a started build whose engine call has settled and whose output stream
\* has ended, errored or been torn down has dispatched a terminal hook: no
\* build is left with zero terminal dispatches.
C3_SettledHasTerminal ==
    \A b \in Builds : Settled(b) => HasTerminal(b)

\* C4: an accepted build whose output ended with no daemon error record and
\* no channel error has dispatched buildSuccess exactly once, with the last
\* digest and the full sequence of the digests of its own Stream records,
\* and has never dispatched buildFailure.
C4_SuccessOnCleanEnd ==
    \A b \in Builds :
        ( /\ pc[b] = "accepted"
          /\ out[b] = "ended"
          /\ ErrorPositions(b) = {}
          /\ \A i \in Dispatches(b, "buildFailure") : calls[b][i].arg # ChannelErr )
        => /\ HookCount(b, "buildSuccess") = 1
           /\ HookCount(b, "buildFailure") = 0
           /\ \A i \in Dispatches(b, "buildSuccess") :
                /\ calls[b][i].list = OwnDigests(b, calls[b][i].at)
                /\ calls[b][i].arg = Last(OwnDigests(b, calls[b][i].at))

\* C5: a build that processed a daemon error record dispatches buildFailure
\* exactly once (once the channel teardown has run), each time with exactly
\* the digests of the Stream records before that error record, and never
\* dispatches buildSuccess.
C5_FailureOnDaemonError ==
    \A b \in Builds :
        ErrorPositions(b) # {} =>
            LET first == CHOOSE i \in ErrorPositions(b) :
                            \A j \in ErrorPositions(b) : i <= j
            IN  /\ HookCount(b, "buildSuccess") = 0
                /\ HookCount(b, "buildFailure") <= 1
                /\ Settled(b) => HookCount(b, "buildFailure") = 1
                /\ \A i \in Dispatches(b, "buildFailure") :
                        calls[b][i].list = OwnDigests(b, first - 1)

\* C6: every started build has dispatched buildStream exactly once, as the
\* first entry of its log, before any record was processed and before any
\* terminal hook; a build not started has dispatched and processed nothing.
C6_BuildStreamFirstOnce ==
    \A b \in Builds :
        IF pc[b] = "idle"
        THEN calls[b] = << >> /\ seen[b] = << >>
        ELSE /\ HookCount(b, "buildStream") = 1
             /\ calls[b][1].hook = "buildStream"
             /\ calls[b][1].at = 0

\* A build that processed records and then reached a terminal hook.
C6_Witness ==
    \E b \in Builds :
        /\ seen[b] # << >>
        /\ HasTerminal(b)
        /\ HookCount(b, "buildStream") = 1

\* C7: the step that starts a build leaves the engine call pending, returns
\* the duplex channel, has handed that same channel to the buildStream hook,
\* and a hook that threw has already reached the handler.
C7_ReturnsChannelAtOnce ==
    [][\A b \in Builds :
        (pc[b] = "idle" /\ pc'[b] # "idle") =>
            /\ pc'[b] = "requested"
            /\ returned'[b] = DupOf(b)
            /\ Len(calls'[b]) = 1
            /\ calls'[b][1].hook = "buildStream"
            /\ calls'[b][1].arg = returned'[b]
            /\ (Behaviour(ConfigOf(b)[1], "buildStream") = "throws")
                 <=> (Len(handled'[b]) = 1)
      ]_vars

\* A build started with a buildStream hook that throws, its engine call
\* still pending.
C7_Witness ==
    \E b \in Builds :
        /\ pc[b] = "requested"
        /\ returned[b] = DupOf(b)
        /\ Len(handled[b]) = 1

\* C8: the layer list reported to a terminal hook of a build holds no digest
\* of another build's output and holds every digest the build itself had
\* extracted when the hook was dispatched.
C8_NoSharedBuildState ==
    \A b \in Builds :
        \A h \in TerminalHooks : \A i \in Dispatches(b, h) :
            /\ \A o \in Builds \ {b} :
                  Range(calls[b][i].list) \cap Range(OwnDigests(o, Len(seen[o]))) = {}
            /\ Range(OwnDigests(b, calls[b][i].at)) \subseteq Range(calls[b][i].list)

\* C9: every dispatch of a build's event went to the hook set supplied to
\* that build, and every handler invocation, delivered or still attached to
\* a pending result, to the handler supplied to that build.
C9_HooksPerInvocation ==
    \A b \in Builds :
        /\ \A i \in DOMAIN calls[b] : calls[b][i].to = ConfigOf(b)[1]
        /\ \A i \in DOMAIN handled[b] : handled[b][i].handler = ConfigOf(b)[2]
        /\ \A i \in DOMAIN promises[b] : promises[b][i].handler = ConfigOf(b)[2]

\* Two builds with different hook sets, both past a terminal dispatch, the
\* second one started while the first was still processing its output.
C9_Witness ==
    /\ \A b \in Builds : HasTerminal(b)
    /\ ConfigOf("A") # ConfigOf("B")
    /\ \E b \in Builds : handled[b] # << >>
    /\ \E b \in Builds : layers # b /\ seen[b] # << >>

\* C10: a build started after another build reached its terminal hook
\* begins with an empty layer list and errored = false, errored is false
\* when its engine call is accepted, and a list already reported to a
\* terminal hook is left unchanged once a later build has started.
C10_FreshStatePerBuild ==
    [][\A b \in Builds :
        /\ ( /\ pc[b] = "idle" /\ pc'[b] # "idle"
             /\ \E a \in Builds \ {b} : HasTerminal(a) )
           => /\ layers' = b
              /\ arrays'[layers'] = << >>
              /\ errored'[b] = FALSE
        /\ (pc[b] = "requested" /\ pc'[b] = "accepted") => errored'[b] = FALSE
        /\ (HasTerminal(b) /\ layers' \notin {b, NoArray}) => arrays'[b] = arrays[b]
      ]_vars

\* A second build has processed a record of its own after a first build,
\* which extracted a digest, reached its terminal hook and was reported a
\* non-empty list.
C10_Witness ==
    \E a \in Builds : \E b \in Builds \ {a} :
        /\ \E h \in TerminalHooks : \E i \in Dispatches(a, h) :
              calls[a][i].list # << >> /\ calls[a][i].ref = a
        /\ layers = b
        /\ OwnDigests(b, Len(seen[b])) # << >>
        /\ arrays[b] # << >>

\* C11: a hook that throws synchronously has its exception handed to the
\* handler of that build exactly once, in the step of the dispatch; the
\* exception of a throwing buildStream hook does not leave createBuildStream,
\* which has returned the channel and requested the build.
C11_ThrowReachesHandlerOnce ==
    \A b \in Builds :
        /\ \A h \in HookNames :
              Cardinality(HandlerCalls(b, h, "thrown"))
                  = Cardinality(DispatchesThat(b, h, "throws"))
        /\ \A j \in DOMAIN handled[b] : handled[b][j].handler = handler[b]
        /\ DispatchesThat(b, "buildStream", "throws") # {}
              => pc[b] # "idle" /\ returned[b] = DupOf(b)

\* A build whose hooks all throw has gone from buildStream to a terminal
\* hook, the handler being called once for each.
C11_Witness ==
    \E b \in Builds :
        /\ hooks[b] = "hooksThrow"
        /\ HasTerminal(b)
        /\ Len(handled[b]) = Len(calls[b])
        /\ Len(calls[b]) >= 2

\* C12: a hook whose deferred result rejects has the rejection handed to the
\* handler exactly once, in a later step than the dispatch: the dispatching
\* step calls no handler for it and leaves the result pending, and at every
\* moment each such dispatch is either still pending or has reached the
\* handler once.
C12_RejectionReachesHandlerLater ==
    [][\A b \in Builds :
        /\ \A h \in HookNames :
              Cardinality(HandlerCalls(b, h, "rejected")')
                + Cardinality(Pending(b, h, "rejected")')
                  = Cardinality(DispatchesThat(b, h, "rejects")')
        /\ ( /\ Len(calls'[b]) = Len(calls[b]) + 1
             /\ Behaviour(Last(calls'[b]).to, Last(calls'[b]).hook) = "rejects" )
           => /\ handled'[b] = handled[b]
              /\ Len(promises'[b]) = Len(promises[b]) + 1
              /\ Last(promises'[b]).hook = Last(calls'[b]).hook
              /\ Last(promises'[b]).handler = handler'[b]
     ]_vars

\* The result of buildStream is still pending while the terminal hook of the
\* same build has been dispatched and its rejection has reached the handler.
C12_Witness ==
    \E b \in Builds :
        /\ hooks[b] = "hooksReject"
        /\ Pending(b, "buildStream", "rejected") # {}
        /\ \E h \in TerminalHooks : HandlerCalls(b, h, "rejected") # {}

\* C13: a dispatch to a hook that is not registered runs nothing and leaves
\* nothing pending, and the handler is never called for a hook whose
\* dispatches all found it absent, returning normally or returning a
\* deferred result that fulfils.
C13_QuietHooksNeverReachHandler ==
    \A b \in Builds : \A h \in HookNames :
        /\ \A i \in DispatchesThat(b, h, "absent") :
              /\ ~calls[b][i].ran
              /\ \A j \in DOMAIN promises[b] : promises[b][j].hook # h
        /\ Dispatches(b, h) = DispatchesThat(b, h, "absent")
                                \cup DispatchesThat(b, h, "returns")
                                \cup DispatchesThat(b, h, "fulfils")
              => \A j \in DOMAIN handled[b] : handled[b][j].hook # h

\* A build with no hook registered has gone through buildStream and a
\* terminal dispatch.
C13_Witness ==
    \E b \in Builds :
        /\ hooks[b] = "hooksNone"
        /\ DispatchesThat(b, "buildStream", "absent") # {}
        /\ \E h \in TerminalHooks : DispatchesThat(b, h, "absent") # {}

\* The dispatches of build b to hooks that raise: throw, or return a
\* deferred result that rejects.
Raising(b) ==
    {i \in DOMAIN calls[b] :
        Behaviour(calls[b][i].to, calls[b][i].hook) \in {"throws", "rejects"}}

\* C14: the handler is called only for hooks that raise, never for the
\* failure of the build: the handler calls of a build are as many as its
\* dispatches to raising hooks whose result has settled, so a failed build
\* whose hooks complete normally has none, and a throwing buildFailure hook
\* accounts for one call per dispatch.
C14_HandlerOnlyForHookErrors ==
    \A b \in Builds :
        /\ Len(handled[b]) + Cardinality({j \in DOMAIN promises[b] :
                                            promises[b][j].how = "rejected"})
              = Cardinality(Raising(b))
        /\ \A j \in DOMAIN handled[b] :
              handled[b][j].how \in {"thrown", "rejected"}

\* A build whose hooks return normally has failed on a daemon error record
\* and dispatched buildFailure; its handler has not been called.
C14_Witness ==
    \E b \in Builds :
        /\ hooks[b] = "hooksReturn"
        /\ ErrorPositions(b) # {}
        /\ Dispatches(b, "buildFailure") # {}
        /\ handled[b] = << >>

\* The terminal dispatches of build b in order, each with the arguments the
\* hook is given.
IsTerminal(e) == e.hook \in TerminalHooks
TerminalsOf(b) ==
    LET t == SelectSeq(calls[b], IsTerminal)
    IN  [i \in DOMAIN t |-> <<t[i].hook, t[i].arg, t[i].list>>]

\* What a build has come to: its errored flag, its layers, its terminal
\* dispatches, and the state of its engine call, output stream and channel.
Outcome(b) ==
    [errored |-> errored[b], layers |-> arrays[b], terminals |-> TerminalsOf(b),
     pc |-> pc[b], out |-> out[b], dup |-> dup[b]]

\* C15: the outcome of a build does not depend on whether its hooks raise:
\* a build called with any hook set (throwing, rejecting, fulfilling, absent)
\* that has received the same engine and channel events as a build whose
\* hooks return normally has the same errored value, the same layers and the
\* same sequence of terminal dispatches.
C15_OutcomeIndependentOfHooks ==
    ( /\ events[PairFollower] = events[PairLeader]
      /\ events[PairLeader] # << >> )
    => Outcome(PairFollower) = Outcome(PairLeader)

\* Both builds have ended cleanly on the same events and dispatched
\* buildSuccess; the hooks of the follower all throw, and its handler was
\* called for buildStream and for buildSuccess.
C15_Witness ==
    /\ events[PairFollower] = events[PairLeader]
    /\ hooks[PairFollower] = "hooksThrow"
    /\ HandlerCalls(PairFollower, "buildSuccess", "thrown") # {}
    /\ Dispatches(PairLeader, "buildSuccess") # {}
    /\ handled[PairLeader] = << >>
    /\ arrays[PairLeader] # << >>

\* C16: a build whose engine request was rejected has dispatched
\* buildFailure exactly once, with the rejection error and an empty layer
\* list, has never dispatched buildSuccess and has processed no record.
C16_RejectedEngineCall ==
    \A b \in Builds :
        pc[b] = "rejected" =>
            /\ HookCount(b, "buildFailure") = 1
            /\ \A i \in Dispatches(b, "buildFailure") :
                  calls[b][i].arg = EngineError /\ calls[b][i].list = << >>
            /\ HookCount(b, "buildSuccess") = 0
            /\ seen[b] = << >>

\* C17: once the channel of a build has emitted an error, before or after
\* the engine call resolved, errored is true and buildFailure has been
\* dispatched with a channel-level error and the layers accumulated by then.
C17_ChannelErrorFails ==
    \A b \in Builds :
        dup[b].emitted =>
            /\ errored[b]
            /\ \E i \in Dispatches(b, "buildFailure") :
                  /\ calls[b][i].arg # EngineError
                  /\ calls[b][i].list = ListOf(calls[b][i].ref)

\* C18: when the holder of the channel destroys it while the build is in
\* progress, the teardown surfaces as a channel error that sets errored and
\* dispatches buildFailure, and no step after the destroy dispatches
\* buildSuccess.
C18_DestroyFailsBuild ==
    [][\A b \in Builds :
        /\ ( /\ dup[b].by = "holder"
             /\ dup[b].pending # "none"
             /\ dup'[b].pending = "none"
             /\ ~HasTerminal(b) )
           => /\ dup'[b].emitted
              /\ errored'[b]
              /\ HookCount(b, "buildFailure")' = HookCount(b, "buildFailure") + 1
        /\ dup[b].by = "holder"
           => HookCount(b, "buildSuccess")' = HookCount(b, "buildSuccess")
     ]_vars

\* C19: for every daemon error record a build has processed, with message
\* m, the channel of the build is destroyed with an error carrying m, and
\* once the teardown has run the channel has emitted that error and
\* buildFailure has been dispatched with it.
C19_DaemonErrorIsTheCause ==
    \A b \in Builds : \A i \in ErrorPositions(b) :
        /\ dup[b].destroyed
        /\ dup[b].cause = Error(seen[b][i].text)
        /\ dup[b].pending = "none"
              => /\ dup[b].emitted
                 /\ \E k \in Dispatches(b, "buildFailure") :
                       calls[b][k].arg = Error(seen[b][i].text)

\* C20: a build that has dispatched buildFailure, whatever the cause, has
\* its channel destroyed: no failed build is left with an open channel.
C20_FailureClosesChannel ==
    \A b \in Builds :
        Dispatches(b, "buildFailure") # {} => dup[b].destroyed

\* C21: when the output stream of a build ends with errored already true,
\* the end dispatches no hook (no buildSuccess) and errored stays true.
C21_LateEndDispatchesNothing ==
    [][\A b \in Builds :
        (errored[b] /\ out[b] = "open" /\ out'[b] = "ended")
            => /\ calls'[b] = calls[b]
               /\ errored'[b]
     ]_vars

\* The output of a failed build has ended as the last event of the build:
\* the channel had emitted an error of its own while the output was open.
C21_Witness ==
    \E b \in Builds :
        /\ errored[b]
        /\ out[b] = "ended"
        /\ events[b] # << >>
        /\ Last(events[b])[1] = "end"
        /\ Dispatches(b, "buildFailure") # {}
        /\ Dispatches(b, "buildSuccess") = {}

\* The texts of the Stream records of a record sequence, in order.
RECURSIVE TextsOf(_)
TextsOf(recs) ==
    IF recs = << >> THEN << >>
    ELSE (IF Head(recs).type = "stream" THEN <<Head(recs).text>> ELSE << >>)
            \o TextsOf(Tail(recs))

\* The records build b decoded before its first daemon error record.
BeforeFirstError(b) ==
    IF ErrorPositions(b) = {} THEN seen[b]
    ELSE SubSeq(seen[b], 1,
                (CHOOSE i \in ErrorPositions(b) :
                    \A j \in ErrorPositions(b) : i <= j) - 1)

\* C22: once the reader of the channel has taken what the channel holds for
\* it, the texts it was handed are exactly the texts of the Stream records
\* decoded before the first daemon error record, in order, each once, none
\* omitted, whether or not a record yields a digest.
C22_ReadableIsTextsBeforeError ==
    \A b \in Builds :
        readable[b].buffered = << >>
            => readable[b].pushed = TextsOf(BeforeFirstError(b))

\* The events a build is to skip: a null chunk, an object with neither a
\* stream nor an error field, a line that is not JSON.
SkippedEvents ==
    {<<"record", NullRecord>>, <<"record", OtherRecord>>, Event("malformed")}

\* C23: a step in which a build receives a null chunk, a malformed one or an
\* object with neither a stream nor an error field leaves the layer lists,
\* errored, the readable side and the hook log of the build as they were,
\* and leaves the output stream delivering the records that follow.
C23_SkippedChunkIsSilent ==
    [][\A b \in Builds : \A ev \in SkippedEvents :
        events'[b] = Append(events[b], ev)
            => /\ arrays' = arrays
               /\ errored'[b] = errored[b]
               /\ readable'[b] = readable[b]
               /\ calls'[b] = calls[b]
               /\ out'[b] = out[b]
     ]_vars

\* Positions of a statement or failure in the log of the buildDir call.
StepsOf(x) == {i \in DOMAIN dir.steps : dir.steps[i] = x}

\* Every x of the log comes before every y.
Precedes(x, y) == \A i \in StepsOf(x), j \in StepsOf(y) : i < j

\* C24: in a buildDir call every file's entry is appended, then the archive
\* is finalized, then the build is started (buildStream dispatched, engine
\* requested), then the archive is piped into the channel; the promise
\* resolves only once the build is started, with the channel the buildStream
\* hook was handed.
C24_BuildDirOrder ==
    /\ Precedes("entry", "finalize")
    /\ Precedes("finalize", "createBuildStream")
    /\ Precedes("createBuildStream", "pipe")
    /\ StepsOf("finalize") # {}
          => Cardinality(StepsOf("entry")) = Cardinality(dir.tree.files)
    /\ StepsOf("createBuildStream") # {}
          => StepsOf("finalize") # {} /\ pc[DirBuild] # "idle"
    /\ pc[DirBuild] # "idle" => StepsOf("createBuildStream") # {}
    /\ StepsOf("pipe") # {}
          => /\ StepsOf("createBuildStream") # {}
             /\ dir.piped = returned[DirBuild]
    /\ dir.promise.state = "resolved"
          => /\ StepsOf("createBuildStream") # {}
             /\ pc[DirBuild] # "idle"
             /\ calls[DirBuild] # << >>
             /\ calls[DirBuild][1].hook = "buildStream"
             /\ dir.promise.value = calls[DirBuild][1].arg
             /\ dir.promise.value = DupOf(DirBuild)

\* A directory with two files was archived, the build started with a
\* buildStream hook and the promise resolved.
C24_Witness ==
    /\ dir.promise.state = "resolved"
    /\ Len(dir.entries) = 2
    /\ dir.piped = DupOf(DirBuild)
    /\ calls[DirBuild][1].ran

\* C25: when the walk of the directory or the read of a file fails, the
\* promise of buildDir rejects and no build is started: no engine request,
\* no channel, no hook dispatched.
C25_ReadFailureStartsNothing ==
    (StepsOf("walk error") # {} \/ StepsOf("read error") # {})
        => /\ dir.promise.state = "rejected"
           /\ pc[DirBuild] = "idle"
           /\ returned[DirBuild] = Undefined
           /\ calls[DirBuild] = << >>
           /\ StepsOf("createBuildStream") = {}
           /\ dir.piped = Undefined

\* The read of one file failed after another file had been read.
C25_Witness ==
    /\ StepsOf("read error") # {}
    /\ dir.read # {}
    /\ dir.promise.state = "rejected"

\* C26: the archive of a tree with N files gets exactly N entries, one per
\* file and none for a directory, named by the path of the file relative to
\* the root; a tree with no file is finalized and its build started too.
C26_OneEntryPerFile ==
    /\ dir.pc \in {"packing", "started"}
          => /\ Len(dir.entries) = Cardinality(dir.tree.files)
             /\ Range(dir.entries) = dir.tree.files
    /\ (dir.pc = "reading" /\ dir.tree.files = {}) => ENABLED PackEntries
    /\ (dir.pc = "packing" /\ dir.tree.files = {}) => ENABLED BuildDirThen
    /\ (dir.pc = "started" /\ dir.tree.files = {})
          => StepsOf("finalize") # {} /\ pc[DirBuild] # "idle"

\* The build of a tree with files in directories was started.
C26_Witness ==
    /\ dir.pc = "started"
    /\ Cardinality(dir.tree.files) = 2
    /\ dir.tree.dirs # {}
    /\ \E i \in DOMAIN dir.entries : Len(dir.entries[i]) > 1

\* C27: a buildDir call with a buildTransform hook registered has, once its
\* promise resolves, invoked that hook exactly once, after the build was
\* started, and piped the archive into what the hook returned.
C27_BuildDirCallsTransform ==
    (dir.promise.state = "resolved" /\ Registered(dir.config[1], "buildTransform"))
        => /\ HookCount(DirBuild, "buildTransform") = 1
           /\ \A i \in Dispatches(DirBuild, "buildTransform") :
                  /\ i > 1
                  /\ calls[DirBuild][i].ran

\* C28: a build started through createBuildStream itself never dispatches
\* buildTransform, whether or not its hook set registers one.
C28_NoTransformOnDirectBuild ==
    \A b \in Builds : Dispatches(b, "buildTransform") = {}

\* A build started with a hook set that registers buildTransform has run
\* to a terminal hook.
C28_Witness ==
    \E b \in Builds :
        /\ Registered(hooks[b], "buildTransform")
        /\ seen[b] # << >>
        /\ \E h \in TerminalHooks : \E i \in Dispatches(b, h) : calls[b][i].ran

\* The n characters of x from position i on are lowercase hex.
HexAt(x, i, n) ==
    /\ i + n - 1 <= Len(x)
    /\ \A k \in i..(i + n - 1) : x[k] \in HexChars

\* x[i..j] is a run of MinShaLen or more hex characters that ends where the
\* hex characters end.
IsShaRun(x, i, j) ==
    /\ j - i + 1 >= MinShaLen
    /\ HexAt(x, i, j - i + 1)
    /\ j = Len(x) \/ x[j + 1] \notin HexChars

HasArrowPrefix(m) ==
    \E a \in 0..Len(m), d \in 1..Len(m) :
        /\ a + d + 1 <= Len(m)
        /\ \A k \in 1..a : m[k] \in WsChars
        /\ \A k \in (a + 1)..(a + d) : m[k] = "-"
        /\ m[a + d + 1] = ">"

ArrowEndsAt(m, p) ==
    /\ p \in DOMAIN m
    /\ m[p] = ">"
    /\ \E a \in 0..(p - 2) :
          /\ \A k \in 1..a : m[k] \in WsChars
          /\ \A k \in (a + 1)..(p - 1) : m[k] = "-"

\* C31: every digest extractLayer returns is made of lowercase hex
\* characters only, is 12 or more characters long and is a contiguous part
\* of the text after its arrow marker; a remainder with no run of 12
\* lowercase hex characters (only shorter runs, or runs with uppercase
\* letters) yields none.
C31_DigestShape ==
    \A n \in DOMAIN probe.results :
        LET m == probe.results[n].message
            sha == probe.results[n].sha
            x == extractArrowMessage(m)
        IN  /\ sha # Undefined
                  => /\ Len(sha) >= MinShaLen
                     /\ \A k \in DOMAIN sha : sha[k] \in HexChars
                     /\ \E p, i \in DOMAIN m :
                           /\ ArrowEndsAt(m, p)
                           /\ i > p
                           /\ i + Len(sha) - 1 <= Len(m)
                           /\ SubSeq(m, i, i + Len(sha) - 1) = sha
            /\ (x # Undefined /\ ~\E i \in DOMAIN x : HexAt(x, i, MinShaLen))
                  => sha = Undefined

\* extractLayer returned a digest for one text and none for a text whose
\* remainder has hex characters but no run of 12 lowercase ones.
C31_Witness ==
    /\ \E n \in DOMAIN probe.results : probe.results[n].sha # Undefined
    /\ \E n \in DOMAIN probe.results :
          LET x == extractArrowMessage(probe.results[n].message)
          IN  /\ x # Undefined
              /\ \E i \in DOMAIN x : x[i] \in HexChars
              /\ ~\E i \in DOMAIN x : HexAt(x, i, MinShaLen)
              /\ probe.results[n].sha = Undefined

\* The engine build requests of the invocation b, and its events of a kind.
Requests(b) == {i \in DOMAIN dup[b].steps : dup[b].steps[i] = "buildImage"}
EventsOf(b, kind) == {i \in DOMAIN events[b] : events[b][i][1] = kind}

\* C32: each createBuildStream invocation asks the engine for the build
\* exactly once; no engine rejection, daemon error record or channel error
\* is followed by another request.
C32_RequestedOnce ==
    \A b \in Builds :
        /\ Cardinality(Requests(b)) = Cardinality(EventsOf(b, "start"))
        /\ Cardinality(Requests(b)) = IF pc[b] = "idle" THEN 0 ELSE 1
        /\ Cardinality(EventsOf(b, "resolve") \cup EventsOf(b, "reject")) <= 1

\* The engine rejected the build, the failure is dispatched, and the single
\* request is the only one.
C32_Witness ==
    \E b \in Builds :
        /\ pc[b] = "rejected"
        /\ Dispatches(b, "buildFailure") # {}
        /\ Cardinality(Requests(b)) = 1

\* C33: the errored flag of a build starts false when the engine accepts the
\* build, is set only by a daemon error record, an error of the output
\* stream or an error of the channel, and never goes from true to false.
C33_ErroredMonotonic ==
    [][ \A b \in Builds :
          /\ errored[b] => errored'[b]
          /\ (pc[b] # "accepted" /\ pc'[b] = "accepted") => ~errored'[b]
          /\ (~errored[b] /\ errored'[b])
                => LET ev == Last(events'[b])
                   IN  \/ ev[1] = "record" /\ ev[2].type = "error"
                       \/ ev[1] \in {"output error", "channel error", "tick"}
      ]_vars

\* The flag was set by a daemon error record and is still set after the
\* teardown of the channel reported the error.
C33_Witness ==
    \E b \in Builds :
        /\ errored[b]
        /\ ErrorPositions(b) # {}
        /\ dup[b].by = "daemon"
        /\ dup[b].pending = "none"
        /\ dup[b].emitted

\* Positions of the step x in what createBuildStream did with the channel
\* of build b.
ChannelStepsOf(b, x) == {i \in DOMAIN dup[b].steps : dup[b].steps[i] = x}

\* The listeners the .then callback attaches.
Listeners == {"outputStream.on error", "dup.on error", "outputStream.on end"}

\* C36: the write side of the channel is bound before the engine build is
\* requested and before the buildStream hook is dispatched (the hook is
\* handed the channel with its write side bound); the read side is bound
\* only once the engine call has resolved, after the error and end
\* listeners are attached.
C36_LegsBoundInOrder ==
    \A b \in Builds :
        /\ pc[b] # "idle" <=> ChannelStepsOf(b, "setWritable") # {}
        /\ \A i \in ChannelStepsOf(b, "setWritable") :
              \A j \in ChannelStepsOf(b, "buildImage")
                            \cup ChannelStepsOf(b, "buildStream")
                            \cup ChannelStepsOf(b, "setReadable") : i < j
        /\ \A c \in Dispatches(b, "buildStream") :
              /\ calls[b][c].arg = DupOf(b)
              /\ ChannelStepsOf(b, "setWritable") # {}
        /\ ChannelStepsOf(b, "setReadable") # {} <=> EventsOf(b, "resolve") # {}
        /\ \A i \in ChannelStepsOf(b, "setReadable") :
              /\ \A j \in ChannelStepsOf(b, "buildImage")
                            \cup ChannelStepsOf(b, "buildStream") : j < i
              /\ \A x \in Listeners :
                    \E j \in ChannelStepsOf(b, x) : j < i
        /\ (EventsOf(b, "reject") # {} \/ pc[b] = "requested")
              => /\ ChannelStepsOf(b, "setReadable") = {}
                 /\ readable[b] = NoTexts

\* An accepted build with both legs bound, the buildStream hook dispatched
\* and a text of the engine passed to the read side.
C36_Witness ==
    \E b \in Builds :
        /\ pc[b] = "accepted"
        /\ Dispatches(b, "buildStream") # {}
        /\ ChannelStepsOf(b, "setWritable") # {}
        /\ ChannelStepsOf(b, "setReadable") # {}
        /\ readable[b].buffered # << >>

\* C34: the layer sequence of a build is append-only, each step leaving it
\* as it is or appending one digest at its end, and it is at every point
\* the digests of the Stream records the build has processed so far, in the
\* order they were processed, repeated digests included.
C34_LayersAppendOnly ==
    [][ \A b \in Builds :
          /\ \/ arrays'[b] = arrays[b]
             \/ /\ arrays'[b] # << >>
                /\ arrays'[b] = Append(arrays[b], Last(arrays'[b]))
          /\ arrays'[b] = DigestsOf(seen'[b])
      ]_vars

\* C35: once a build has processed a daemon error record, no later event
\* of the build changes its layer sequence, the Stream records decoded from
\* the same chunk and processed before the teardown included.
C35_LayersFrozenAfterError ==
    [][ \A b \in Builds :
          (ErrorPositions(b) # {} /\ errored[b]) => arrays'[b] = arrays[b]
      ]_vars

\* C37: when the output of an accepted build ends with errored unset and the
\* layer sequence empty, no Stream record having yielded a digest, the end
\* dispatches buildSuccess, once, with an undefined image identifier and an
\* empty layer list; it dispatches no buildFailure and does not stay silent.
C37_SuccessWithoutLayers ==
    [][ \A b \in Builds :
          /\ ( /\ out[b] = "open"
               /\ out'[b] = "ended"
               /\ ~errored[b]
               /\ OwnDigests(b, Len(seen[b])) = << >>
               /\ ListOf(layers) = << >> )
               => /\ Len(calls'[b]) = Len(calls[b]) + 1
                  /\ SubSeq(calls'[b], 1, Len(calls[b])) = calls[b]
                  /\ LET e == Last(calls'[b])
                     IN  /\ e.hook = "buildSuccess"
                         /\ e.arg = Undefined
                         /\ e.list = << >>
                  /\ HookCount(b, "buildSuccess") = 0
          /\ ( /\ out'[b] = "ended"
               /\ ~errored'[b]
               /\ DigestsOf(seen'[b]) = << >> )
               => /\ HookCount(b, "buildSuccess")' = 1
                  /\ HookCount(b, "buildFailure")' = 0
      ]_vars

\* A build whose records carried no digest ended: buildSuccess was
\* dispatched once, with an undefined identifier and an empty list.
C37_Witness ==
    \E b \in Builds :
        /\ out[b] = "ended"
        /\ ~errored[b]
        /\ seen[b] # << >>
        /\ \E i \in DOMAIN seen[b] : seen[b][i].type = "stream"
        /\ OwnDigests(b, Len(seen[b])) = << >>
        /\ HookCount(b, "buildSuccess") = 1
        /\ HookCount(b, "buildFailure") = 0
        /\ \A i \in Dispatches(b, "buildSuccess") :
              calls[b][i].arg = Undefined /\ calls[b][i].list = << >>

====
